---- MODULE Spec2Model ----
(***************************************************************************)
(* Startup investment dashboard (src/app.py): one script, re-executed on   *)
(* every user interaction.  load_data (memoized) -> sidebar widgets ->     *)
(* boolean-mask filter -> empty check -> overview table -> seven views.    *)
(*                                                                         *)
(* Representation.  A float column value is kept in fixed point, counted   *)
(* in halves (h = 2 * value), with an explicit NaN flag; an int column     *)
(* value is a plain integer.  A missing categorical cell is Null.          *)
(***************************************************************************)
EXTENDS Integers, Sequences, FiniteSets, TLC

VARIABLES
    file,            \* cleaned_investments.csv on disk: raw header and raw rows
    cache,           \* the st.cache_data entry of load_data: NoEntry or the Dataset
    fileReads,       \* number of pd.read_csv calls made by the process
    widgets,         \* session widget state: NoWidgets or the Filter Criteria
    bounds,          \* the effective slider bounds of the last run
    outcome,         \* how the last script run ended: none / error / stopped / done
    filtered_df,     \* index labels of the rows kept by the mask, in order
    display_df,      \* overview table (head 20), NoTable when not built
    aggs,            \* the aggregate results of the last run
    out              \* the main-page UI calls of the last run (after the sidebar), in call order

vars == <<file, cache, fileReads, widgets, bounds, outcome, filtered_df,
          display_df, aggs, out>>

----------------------------------------------------------------------------
(* Bounds of the model *)

\* largest number of rows of an exhaustively enumerated input file
MaxRows == 2
\* a multiselect with at most this many options is driven through every subset
MaxFreeOptions == 3
\* the funding slider is driven through its first MaxSteps steps above the minimum
MaxSteps == 3

----------------------------------------------------------------------------
(* Program constants *)

DefaultYearLo == 2005
DefaultYearHi == 2015
DefaultMinFunding == 1000000
FundingStep == 500000
DefaultMarkets == 5
TopMarketsN == 10
TopCountriesN == 7
TopAvgN == 7
TopAcqN == 7
DefaultCountries == {"USA", "GBR"}

----------------------------------------------------------------------------
(* Values *)

Null == "<NA>"

\* python's sorted() order of the categorical values that occur in the inputs
MarketOrder ==
    <<"advertising", "analytics", "biotech", "curated web", "e-commerce",
      "education", "enterprise", "finance", "games", "hardware", "software">>
CountryOrder == <<"CAN", "CHN", "DEU", "FRA", "GBR", "IND", "ISR", "USA">>
StatusOrder == <<"acquired", "closed", "operating">>

Range(s) == {s[i] : i \in 1..Len(s)}

\* raw csv cells of a numeric column
Num(h) == [t |-> "num", h |-> h]          \* a numeric literal worth h/2
Whole(n) == Num(2 * n)
TextCell == [t |-> "text", h |-> 0]       \* e.g. "unknown"
NACell == [t |-> "na", h |-> 0]           \* empty cell

Row(n, m, c, s, y, f, r, u) ==
    [name |-> n, market |-> m, country_code |-> c, status |-> s,
     founded_year |-> y, funding_total_usd |-> f, funding_rounds |-> r,
     homepage_url |-> u]

\* the raw rows input files are assembled from
Catalogue ==
    << Row("a", "software", "USA", "operating", Whole(2005), Whole(1000000), 2, "http://a.io"),
       Row("b", "software", "GBR", "acquired",  Whole(2010), Whole(500000),  1, Null),
       Row("c", "biotech",  "USA", "acquired",  Num(4025),   Whole(400000),  3, "c.io"),
       Row("d", "biotech",  "GBR", "operating", TextCell,    NACell,         1, "https://d.io"),
       Row("e", Null,       "USA", "operating", Whole(2008), Whole(1500000), 1, Null),
       Row("f", "biotech",  Null,  "acquired",  Whole(2016), Num(2000001),   2, Null),
       Row("g", "software", "GBR", Null,        Whole(-1),   Whole(-100),    1, Null) >>

\* a file with more markets than TopMarketsN and more countries than TopCountriesN
WideRows ==
    << Row("w01", "advertising", "USA", "operating", Whole(2006), Whole(3000000), 1, Null),
       Row("w02", "analytics",   "GBR", "acquired",  Whole(2007), Whole(3000000), 2, Null),
       Row("w03", "biotech",     "CAN", "operating", Whole(2008), Whole(9000000), 1, Null),
       Row("w04", "curated web", "CHN", "acquired",  Whole(2009), Whole(1000000), 1, Null),
       Row("w05", "e-commerce",  "DEU", "operating", Whole(2010), Whole(5000000), 4, Null),
       Row("w06", "education",   "FRA", "closed",    Whole(2011), Whole(1000000), 1, Null),
       Row("w07", "enterprise",  "IND", "operating", Whole(2012), Whole(7000000), 1, Null),
       Row("w08", "finance",     "ISR", "acquired",  Whole(2013), Whole(4000000), 2, Null),
       Row("w09", "games",       "USA", "operating", Whole(2014), Whole(6000000), 1, Null),
       Row("w10", "hardware",    "USA", "operating", Whole(2015), Whole(8000000), 1, Null),
       Row("w11", "software",    "GBR", "operating", Whole(2010), Whole(1000000), 1, Null),
       Row("w12", "software",    "USA", "acquired",  Whole(2010), Whole(1000000), 1, Null),
       Row("w13", "games",       Null,  "operating", Whole(2010), Whole(2000000), 1, Null) >>

RequiredHeader ==
    {"name", "market", "country_code", "status", "founded_year", "funding_total_usd"}
OptionalHeader == {" funding_rounds ", "homepage_url"}

\* the ordered sub-sequences of Catalogue with at most MaxRows rows
RECURSIVE SubSeqs(_, _)
SubSeqs(from, n) ==
    IF n = 0 \/ from > Len(Catalogue) THEN {<< >>}
    ELSE SubSeqs(from + 1, n) \cup
         {<<Catalogue[from]>> \o t : t \in SubSeqs(from + 1, n - 1)}

Files ==
    {[header |-> RequiredHeader \cup opt, rows |-> rs] :
        opt \in SUBSET OptionalHeader, rs \in SubSeqs(1, MaxRows) \cup {WideRows}}

----------------------------------------------------------------------------
(* load_data: lines 11-17 *)

\* df.columns.str.strip()
Strip(col) ==
    CASE col = " funding_rounds " -> "funding_rounds"
      [] col = " homepage_url"    -> "homepage_url"
      [] OTHER                    -> col

NaN == [nan |-> TRUE, h |-> 0]
Float(h) == [nan |-> FALSE, h |-> h]

\* pd.to_numeric(cell, errors='coerce'): a literal parses, anything else is NaN
ToNumeric(cell) == IF cell.t = "num" THEN Float(cell.h) ELSE NaN

\* fillna left out: NaN stays in the column
FillNaNone(x) == x

\* .fillna(0)
FillNa0(x) == IF x.nan THEN Float(0) ELSE x

\* .astype(int): truncation toward zero
AsTypeInt(x) == IF x.h >= 0 THEN x.h \div 2 ELSE -((-x.h) \div 2)

NormalizeRow(raw) ==
    [raw EXCEPT !.founded_year = AsTypeInt(FillNa0(ToNumeric(raw.founded_year))),
                !.funding_total_usd = FillNa0(ToNumeric(raw.funding_total_usd))]

\* the body of load_data: read_csv, strip the header, coerce the two columns
ReadAndNormalize(f) ==
    [columns |-> {Strip(c) : c \in f.header},
     rows    |-> [i \in 1..Len(f.rows) |-> NormalizeRow(f.rows[i])],
     loaded  |-> TRUE]

NoEntry == [columns |-> {}, rows |-> << >>, loaded |-> FALSE]

\* no memoization: every call runs the body
CacheMiss(entry) == FALSE

\* @st.cache_data: the function body runs only when no entry is stored
CacheHit(entry) == entry # NoEntry

load_data_value == IF CacheHit(cache) THEN cache ELSE ReadAndNormalize(file)
load_data_reads == IF CacheHit(cache) THEN fileReads ELSE fileReads + 1

----------------------------------------------------------------------------
(* Sidebar widgets: lines 22-28 *)

\* unique() without dropna()
DistinctWithNull(df, col) == {df.rows[i][col] : i \in 1..Len(df.rows)}

\* df[col].dropna().unique()
Distinct(df, col) == {df.rows[i][col] : i \in 1..Len(df.rows)} \ {Null}

\* sorted(values)
Sorted(S, order) == SelectSeq(order, LAMBDA x : x \in S)

HeadN(s, n) == IF Len(s) <= n THEN s ELSE SubSeq(s, 1, n)

SetMin(S) == CHOOSE x \in S : \A y \in S : x <= y
SetMax(S) == CHOOSE x \in S : \A y \in S : x >= y

Years(df) == {df.rows[i].founded_year : i \in 1..Len(df.rows)}
Fundings(df) == {df.rows[i].funding_total_usd.h : i \in 1..Len(df.rows)}

\* int(x) of a float
IntOf(h) == IF h >= 0 THEN h \div 2 ELSE -((-h) \div 2)

Min2(a, b) == IF a <= b THEN a ELSE b
Max2(a, b) == IF a >= b THEN a ELSE b

\* st.slider keeps its bounds consistent with the value it is given: the
\* bounds are widened until they contain the value
SliderBounds(min_value, max_value, lo, hi) ==
    LET mn == Min2(min_value, max_value)
        mx == Max2(mn, max_value)
    IN  <<Min2(lo, mn), Max2(hi, mx)>>

YearBounds(df) ==
    SliderBounds(SetMin(Years(df)), SetMax(Years(df)), DefaultYearLo, DefaultYearHi)
FundingBounds(df) ==
    SliderBounds(0, IntOf(SetMax(Fundings(df))), DefaultMinFunding, DefaultMinFunding)

\* st.multiselect raises when a default value is not among the options;
\* min()/max() of an empty column is NaN and int(NaN) raises
WidgetsRaise(df) ==
    \/ Len(df.rows) = 0
    \/ ~(DefaultCountries \subseteq Distinct(df, "country_code"))

NoWidgets == [status |-> {}, market |-> {}, country |-> {},
              founded_range |-> << >>, min_funding |-> 0, unset |-> TRUE]

\* the values the widgets return on the first run of a session
Defaults(df) ==
    [status  |-> Distinct(df, "status"),
     market  |-> Range(HeadN(Sorted(Distinct(df, "market"), MarketOrder), DefaultMarkets)),
     country |-> DefaultCountries,
     founded_range |-> <<DefaultYearLo, DefaultYearHi>>,
     min_funding |-> DefaultMinFunding,
     unset |-> FALSE]

----------------------------------------------------------------------------
(* Filter: lines 31-37 *)

\* Series.isin(values)
IsIn(v, values) == v \in values
\* between with both ends exclusive
BetweenExclusive(v, lo, hi) == lo < v /\ v < hi

\* Series.between(lo, hi), inclusive on both ends
Between(v, lo, hi) == lo <= v /\ v <= hi

Mask(r, w) ==
    /\ IsIn(r.status, w.status)
    /\ IsIn(r.market, w.market)
    /\ IsIn(r.country_code, w.country)
    /\ Between(r.founded_year, w.founded_range[1], w.founded_range[2])
    /\ ~r.funding_total_usd.nan
    /\ r.funding_total_usd.h >= 2 * w.min_funding

\* df[mask]: the index labels of the kept rows, in dataset order
Filter(df, w) == SelectSeq([i \in 1..Len(df.rows) |-> i], LAMBDA i : Mask(df.rows[i], w))

----------------------------------------------------------------------------
(* Overview table: lines 44-52 *)

\* x.startswith('http'), for the url values that occur in the inputs
StartsWithHttp(u) == u \in {"http://a.io", "https://d.io"}

\* lambda x: f"[Website]({x})" if pd.notna(x) and x.startswith('http') else ''
Link(u) ==
    IF u # Null /\ StartsWithHttp(u) THEN [text |-> "Website", href |-> u]
    ELSE [text |-> "", href |-> ""]

NoTable == << >>

\* filtered_df[[...]].copy() with the url column rewritten
DisplayTable(rows) ==
    [k \in 1..Len(rows) |->
        [name |-> rows[k].name, market |-> rows[k].market,
         country_code |-> rows[k].country_code, status |-> rows[k].status,
         founded_year |-> rows[k].founded_year,
         funding_total_usd |-> rows[k].funding_total_usd,
         homepage_url |-> Link(rows[k].homepage_url)]]

----------------------------------------------------------------------------
(* Aggregators: lines 69, 82, 96, 137, 149-153 *)

\* a mean or a rate is kept as the exact ratio <<numerator, denominator>> in lowest
\* terms; a division by zero (inf or NaN) is kept as <<numerator, 0>>
RECURSIVE GCD(_, _)
GCD(a, b) == IF b = 0 THEN a ELSE GCD(b, a % b)
Abs(n) == IF n < 0 THEN -n ELSE n
Div(n, d) ==
    IF d = 0 THEN <<n, 0>>
    ELSE LET g == GCD(Abs(n), d) IN <<n \div g, d \div g>>

Gt(a, b) == a[1] * b[2] > b[1] * a[2]
Eq(a, b) == a[1] * b[2] = b[1] * a[2]

\* the order sort_values leaves equal values in is not specified
TieBreaks == {"first", "last"}

\* sort_values with the default ascending=True
SortAsc(e, tb) ==
    LET n == Len(e)
        Before(j, i) ==
            \/ Gt(e[i].key, e[j].key)
            \/ /\ Eq(e[j].key, e[i].key)
               /\ IF tb = "first" THEN j < i ELSE j > i
        pos(i) == 1 + Cardinality({j \in 1..n : Before(j, i)})
    IN  [p \in 1..n |-> e[CHOOSE i \in 1..n : pos(i) = p]]

\* Series.sort_values(ascending=False) of entries given in index order
SortDesc(e, tb) ==
    LET n == Len(e)
        Before(j, i) ==
            \/ Gt(e[j].key, e[i].key)
            \/ /\ Eq(e[j].key, e[i].key)
               /\ IF tb = "first" THEN j < i ELSE j > i
        pos(i) == 1 + Cardinality({j \in 1..n : Before(j, i)})
    IN  [p \in 1..n |-> e[CHOOSE i \in 1..n : pos(i) = p]]

\* the keys of a groupby, sorted, NaN keys dropped
GroupKeys(rows, col, order) ==
    Sorted({rows[k][col] : k \in 1..Len(rows)} \ {Null}, order)

RECURSIVE SumFunding(_, _, _, _)
SumFunding(rows, col, key, k) ==
    IF k > Len(rows) THEN 0
    ELSE (IF rows[k][col] = key THEN rows[k].funding_total_usd.h ELSE 0)
         + SumFunding(rows, col, key, k + 1)

Count(rows, col, key) == Cardinality({k \in 1..Len(rows) : rows[k][col] = key})

\* one entry per group key: its label, its reduction value and the value as a ratio
Entries(keys, value, ratio) ==
    [i \in 1..Len(keys) |-> [label |-> keys[i], value |-> value[keys[i]], key |-> ratio[keys[i]]]]

\* 1. groupby('market')['funding_total_usd'].sum().sort_values(ascending=False).head(10)
TopMarkets(rows, tb) ==
    LET keys == GroupKeys(rows, "market", MarketOrder)
        sum  == [m \in Range(keys) |-> SumFunding(rows, "market", m, 1)]
    IN  HeadN(SortDesc(Entries(keys, sum, [m \in Range(keys) |-> <<sum[m], 1>>]), tb),
              TopMarketsN)

\* 2. groupby('founded_year')['funding_total_usd'].sum(), in year order
YearlyFunding(rows) ==
    LET ys == {rows[k].founded_year : k \in 1..Len(rows)}
        pos(y) == 1 + Cardinality({z \in ys : z < y})
    IN  [p \in 1..Cardinality(ys) |->
            LET y == CHOOSE z \in ys : pos(z) = p
            IN  [label |-> y, value |-> SumFunding(rows, "founded_year", y, 1)]]

\* 3. filtered_df['country_code'].value_counts().head(7)
CountryCounts(rows, tb) ==
    LET keys == GroupKeys(rows, "country_code", CountryOrder)
        cnt  == [c \in Range(keys) |-> Count(rows, "country_code", c)]
    IN  HeadN(SortDesc(Entries(keys, cnt, [c \in Range(keys) |-> <<cnt[c], 1>>]), tb),
              TopCountriesN)

\* 6. groupby('market')['funding_total_usd'].mean().sort_values(ascending=False).head(7)
AvgFunding(rows, tb) ==
    LET keys == GroupKeys(rows, "market", MarketOrder)
        mean == [m \in Range(keys) |->
                    Div(SumFunding(rows, "market", m, 1), Count(rows, "market", m))]
    IN  HeadN(SortDesc(Entries(keys, mean, mean), tb), TopAvgN)

\* 7. groupby(['market', 'status']).size().unstack(fill_value=0)
StatusData(rows) ==
    LET ms == {rows[k].market : k \in 1..Len(rows)} \ {Null}
        ss == {rows[k].status : k \in 1..Len(rows)} \ {Null}
    IN  [m \in ms |-> [s \in ss |->
            Cardinality({k \in 1..Len(rows) : rows[k].market = m /\ rows[k].status = s})]]

RECURSIVE SumRow(_, _)
SumRow(r, cols) ==
    IF cols = {} THEN 0
    ELSE LET c == CHOOSE x \in cols : TRUE IN r[c] + SumRow(r, cols \ {c})

\* a row total that leaves the acquired column out
RowTotalOthers(r) == SumRow(r, DOMAIN r \ {"acquired"})

\* status_data.sum(axis=1), evaluated before the acq_rate column is assigned
RowTotal(r) == SumRow(r, DOMAIN r)

\* status_data.get('acquired', 0) / status_data.sum(axis=1)
AcqRate(sd) ==
    [m \in DOMAIN sd |->
        Div(IF "acquired" \in DOMAIN sd[m] THEN sd[m]["acquired"] ELSE 0, RowTotal(sd[m]))]

\* status_data['acq_rate'].sort_values(ascending=False).head(7)
TopAcq(rate, tb) ==
    HeadN(SortDesc(Entries(Sorted(DOMAIN rate, MarketOrder), rate, rate), tb), TopAcqN)

\* 'acquired' looked up in the whole file instead of the filtered view
HasAcquiredAnywhere(rows) == \E i \in 1..Len(file.rows) : file.rows[i].status = "acquired"

\* 'acquired' in filtered_df['status'].values
HasAcquired(rows) == \E k \in 1..Len(rows) : rows[k].status = "acquired"

NoAggs == [top_markets |-> << >>, yearly_funding |-> << >>, country_counts |-> << >>,
           avg_funding |-> << >>, status_data |-> << >>, acq_rate |-> << >>,
           top_acq |-> << >>]

Aggregates(rows, tb) ==
    LET sd   == IF HasAcquired(rows) THEN StatusData(rows) ELSE << >>
        rate == IF HasAcquired(rows) THEN AcqRate(sd) ELSE << >>
    IN  [top_markets |-> TopMarkets(rows, tb),
         yearly_funding |-> YearlyFunding(rows),
         country_counts |-> CountryCounts(rows, tb),
         avg_funding |-> AvgFunding(rows, tb),
         status_data |-> sd,
         acq_rate |-> rate,
         top_acq |-> IF HasAcquired(rows) THEN TopAcq(rate, tb) ELSE << >>]

----------------------------------------------------------------------------
(* UI calls of one run, in call order *)

\* add_spacing(lines): lines 55-57
Spacing(lines) == [i \in 1..lines |-> "write:blank"]

StopOutput == <<"warning:no_data">>
ErrorOutput == <<"exception">>

Rendered(df, rows) ==
    <<"markdown:overview", "write:total">>
    \o (IF "homepage_url" \in df.columns THEN <<"markdown:table">> ELSE <<"write:table">>)
    \o <<"markdown:1", "pyplot:1">> \o Spacing(2)
    \o <<"markdown:2", "plotly_chart:2">> \o Spacing(3)
    \o <<"markdown:3", "pyplot:3">> \o Spacing(3)
    \o <<"markdown:4", "pyplot:4">> \o Spacing(3)
    \o <<"markdown:5">>
    \o (IF "funding_rounds" \in df.columns THEN <<"plotly_chart:5">> ELSE <<"info:5">>)
    \o Spacing(3)
    \o <<"markdown:6", "pyplot:6">> \o Spacing(3)
    \o (IF HasAcquired(rows) THEN <<"markdown:7", "pyplot:7">> ELSE <<"info:7">>)

----------------------------------------------------------------------------
(* One execution of the script *)

NoBounds == [year |-> << >>, funding |-> << >>]

FilteredRows(df, idx) == [k \in 1..Len(idx) |-> df.rows[idx[k]]]

\* the empty check left out
IsEmptyNever(idx) == FALSE

\* filtered_df.empty
IsEmpty(idx) == idx = << >>

\* the run's mask applied to the stored frame itself
StoredFiltered(df, idx) == [df EXCEPT !.rows = [k \in 1..Len(idx) |-> df.rows[idx[k]]]]

\* st.cache_data hands the caller a copy: what the run does to df leaves the entry as loaded
StoredEntry(df, idx) == df

\* lines 19-161 with the widgets returning w
Script(w) ==
    LET df == load_data_value IN
    /\ file' = file
    /\ fileReads' = load_data_reads
    /\ IF WidgetsRaise(df)
       THEN /\ cache' = df
            /\ widgets' = NoWidgets
            /\ bounds' = NoBounds
            /\ outcome' = "error"
            /\ filtered_df' = << >>
            /\ display_df' = NoTable
            /\ aggs' = NoAggs
            /\ out' = ErrorOutput
       ELSE LET cur  == IF w.unset THEN Defaults(df) ELSE w
                idx  == Filter(df, cur)
                rows == FilteredRows(df, idx)
            IN  /\ cache' = StoredEntry(df, idx)
                /\ widgets' = cur
                /\ bounds' = [year |-> YearBounds(df), funding |-> FundingBounds(df)]
                /\ filtered_df' = idx
                /\ IF IsEmpty(idx)
                   THEN /\ outcome' = "stopped"
                        /\ display_df' = NoTable
                        /\ aggs' = NoAggs
                        /\ out' = StopOutput
                   ELSE /\ outcome' = "done"
                        /\ display_df' = IF "homepage_url" \in df.columns
                                         THEN DisplayTable(rows) ELSE NoTable
                        /\ aggs' \in {Aggregates(rows, tb) : tb \in TieBreaks}
                        /\ out' = Rendered(df, rows)

\* the selections a multiselect is driven through
MultiselectChoices(options, default) ==
    IF Cardinality(options) <= MaxFreeOptions THEN SUBSET options
    ELSE {{}, default, options}

\* the positions a slider is driven through
YearStops(b) == {b[1], b[2]} \cup ({DefaultYearLo, DefaultYearHi} \cap (b[1]..b[2]))
FundingStops(b) == {v \in {b[1] + k * FundingStep : k \in 0..MaxSteps} : v <= b[2]}

Live == outcome \in {"stopped", "done"}

Init ==
    /\ file \in Files
    /\ cache = NoEntry
    /\ fileReads = 0
    /\ widgets = NoWidgets
    /\ bounds = NoBounds
    /\ outcome = "none"
    /\ filtered_df = << >>
    /\ display_df = NoTable
    /\ aggs = NoAggs
    /\ out = << >>

\* a session opens: the script runs with every widget at its default
FirstRun ==
    /\ outcome = "none"
    /\ Script(NoWidgets)

\* the script is re-executed with the widget state unchanged
Rerun ==
    /\ outcome # "none"
    /\ Script(widgets)

ChangeStatus ==
    /\ Live
    /\ \E sel \in MultiselectChoices(Distinct(cache, "status"), Defaults(cache).status) :
        /\ sel # widgets.status
        /\ Script([widgets EXCEPT !.status = sel])

ChangeMarket ==
    /\ Live
    /\ \E sel \in MultiselectChoices(Distinct(cache, "market"), Defaults(cache).market) :
        /\ sel # widgets.market
        /\ Script([widgets EXCEPT !.market = sel])

ChangeCountry ==
    /\ Live
    /\ \E sel \in MultiselectChoices(Distinct(cache, "country_code"), DefaultCountries) :
        /\ sel # widgets.country
        /\ Script([widgets EXCEPT !.country = sel])

ChangeYear ==
    /\ Live
    /\ \E lo, hi \in YearStops(bounds.year) :
        /\ lo <= hi
        /\ <<lo, hi>> # widgets.founded_range
        /\ Script([widgets EXCEPT !.founded_range = <<lo, hi>>])

ChangeFunding ==
    /\ Live
    /\ \E v \in FundingStops(bounds.funding) :
        /\ v # widgets.min_funding
        /\ Script([widgets EXCEPT !.min_funding = v])

Next ==
    \/ FirstRun
    \/ Rerun
    \/ ChangeStatus
    \/ ChangeMarket
    \/ ChangeCountry
    \/ ChangeYear
    \/ ChangeFunding

Spec == Init /\ [][Next]_vars

----------------------------------------------------------------------------
(* Properties *)

Dataset == ReadAndNormalize(file)
View == [k \in 1..Len(filtered_df) |-> cache.rows[filtered_df[k]]]
ViewKeys(col) == {View[k][col] : k \in 1..Len(View)}
Labels(seq) == {seq[k].label : k \in 1..Len(seq)}
Values(seq) == [k \in 1..Len(seq) |-> seq[k].value]

\* C1: the Filtered View is a subset of the Dataset, in Dataset order, and a row
\* is in it exactly when it satisfies all five clauses (both year ends inclusive)
FilterExact ==
    Live =>
        /\ Len(filtered_df) <= Len(cache.rows)
        /\ \A k \in 1..Len(filtered_df) : filtered_df[k] \in 1..Len(cache.rows)
        /\ \A k \in 1..(Len(filtered_df) - 1) : filtered_df[k] < filtered_df[k + 1]
        /\ \A i \in 1..Len(cache.rows) :
              LET r == cache.rows[i] IN
              (i \in Range(filtered_df)) <=>
                  /\ r.status \in widgets.status
                  /\ r.market \in widgets.market
                  /\ r.country_code \in widgets.country
                  /\ widgets.founded_range[1] <= r.founded_year
                  /\ r.founded_year <= widgets.founded_range[2]
                  /\ r.funding_total_usd.h >= 2 * widgets.min_funding

\* the spec's example: two rows, country narrowed to USA, row 1 alone is kept, and it
\* sits on the lower year end and on the funding threshold
FilterExactWitness ==
    /\ outcome = "done"
    /\ Len(cache.rows) = 2
    /\ widgets.country = {"USA"}
    /\ filtered_df = <<1>>
    /\ cache.rows[1].founded_year = widgets.founded_range[1]
    /\ cache.rows[1].funding_total_usd.h = 2 * widgets.min_funding

\* C2: an empty Filtered View ends the run in the 'no data' state: the warning is the
\* only output, no table is built and no aggregate is computed
EmptyViewStops ==
    (Live /\ filtered_df = << >>) =>
        /\ outcome = "stopped"
        /\ out = <<"warning:no_data">>
        /\ display_df = NoTable
        /\ aggs = NoAggs

\* the threshold raised above every funding present, on a dataset that has rows
EmptyViewStopsWitness ==
    /\ outcome = "stopped"
    /\ Len(cache.rows) > 0
    /\ \A i \in 1..Len(cache.rows) : cache.rows[i].funding_total_usd.h < 2 * widgets.min_funding
    /\ widgets.market # {} /\ widgets.status # {}

\* C3 as stated: after load_data every founded_year and funding_total_usd is
\* non-negative and not null, whatever the raw cell held
LoadNonNegative ==
    CacheHit(cache) =>
        \A i \in 1..Len(cache.rows) :
            /\ ~cache.rows[i].funding_total_usd.nan
            /\ cache.rows[i].founded_year >= 0
            /\ cache.rows[i].funding_total_usd.h >= 0

\* C3 amended: never null; a missing or unparseable cell becomes 0; a numeric cell
\* keeps its value (founded_year truncated toward zero), negative ones included
LoadCoerced ==
    CacheHit(cache) =>
        /\ Len(cache.rows) = Len(file.rows)
        /\ \A i \in 1..Len(cache.rows) :
              LET y  == file.rows[i].founded_year
                  f  == file.rows[i].funding_total_usd
                  r  == cache.rows[i]
              IN  /\ ~r.funding_total_usd.nan
                  /\ y.t # "num" => r.founded_year = 0
                  /\ f.t # "num" => r.funding_total_usd.h = 0
                  /\ f.t = "num" => r.funding_total_usd.h = f.h
                  /\ (y.t = "num" /\ y.h >= 0) =>
                        (2 * r.founded_year <= y.h /\ y.h < 2 * r.founded_year + 2)
                  /\ (y.t = "num" /\ y.h < 0) =>
                        (2 * r.founded_year >= y.h /\ y.h > 2 * r.founded_year - 2)

\* a load that met an unparseable year, an empty funding cell, a fractional year and
\* a negative number
LoadCoercedWitness ==
    /\ CacheHit(cache)
    /\ \E i \in 1..Len(cache.rows) :
          /\ file.rows[i].founded_year.t = "text"
          /\ file.rows[i].funding_total_usd.t = "na"
          /\ cache.rows[i].founded_year = 0
    /\ \E i \in 1..Len(cache.rows) :
          /\ file.rows[i].founded_year.t = "num"
          /\ cache.rows[i].founded_year < 0
          /\ cache.rows[i].funding_total_usd.h < 0

RankedKeys(col) == ViewKeys(col) \ {Null}
SumOf(col, key) ==
    LET I == {k \in 1..Len(View) : View[k][col] = key}
        RECURSIVE S(_)
        S(J) == IF J = {} THEN 0
                ELSE LET j == CHOOSE x \in J : TRUE
                     IN  View[j].funding_total_usd.h + S(J \ {j})
    IN  S(I)
CountOf(col, key) == Cardinality({k \in 1..Len(View) : View[k][col] = key})
AcquiredOf(m) ==
    Cardinality({k \in 1..Len(View) : View[k].market = m /\ View[k].status = "acquired"})

\* a ranked aggregate over the groups G with reduction Red(_), given as a ratio
StrictlyDescending(seq, Ratio(_)) ==
    \A k \in 1..(Len(seq) - 1) : Gt(Ratio(seq[k].value), Ratio(seq[k + 1].value))
Descending(seq, Ratio(_)) ==
    \A k \in 1..(Len(seq) - 1) : ~Gt(Ratio(seq[k + 1].value), Ratio(seq[k].value))
TopOf(seq, G, Red(_), Ratio(_), n) ==
    /\ Len(seq) = (IF Cardinality(G) <= n THEN Cardinality(G) ELSE n)
    /\ Labels(seq) \subseteq G
    /\ Cardinality(Labels(seq)) = Len(seq)
    /\ \A k \in 1..Len(seq) : seq[k].value = Red(seq[k].label)
    /\ \A g \in G \ Labels(seq) : \A k \in 1..Len(seq) :
          ~Gt(Ratio(Red(g)), Ratio(seq[k].value))

Whole1(v) == <<v, 1>>
Same(v) == v
MarketSum(m) == SumOf("market", m)
CountryCount(c) == CountOf("country_code", c)
MarketMean(m) == Div(SumOf("market", m), CountOf("market", m))
MarketRate(m) == Div(AcquiredOf(m), CountOf("market", m))

\* C4 as stated: each ranked aggregate is strictly descending, also between groups
\* of equal value
RankedStrictlyDescending ==
    outcome = "done" =>
        /\ StrictlyDescending(aggs.top_markets, Whole1)
        /\ StrictlyDescending(aggs.country_counts, Whole1)
        /\ StrictlyDescending(aggs.avg_funding, Same)
        /\ StrictlyDescending(aggs.top_acq, Same)

\* C4 amended: each ranked aggregate is sorted descending with equal values adjacent
\* (never ascending), holds min(N, groups) distinct groups with their reduction
\* values, and no group left out has a larger value than a group kept
RankedDescending ==
    outcome = "done" =>
        /\ Descending(aggs.top_markets, Whole1)
        /\ TopOf(aggs.top_markets, RankedKeys("market"), MarketSum, Whole1, TopMarketsN)
        /\ Descending(aggs.country_counts, Whole1)
        /\ TopOf(aggs.country_counts, RankedKeys("country_code"), CountryCount, Whole1,
                 TopCountriesN)
        /\ Descending(aggs.avg_funding, Same)
        /\ TopOf(aggs.avg_funding, RankedKeys("market"), MarketMean, Same, TopAvgN)
        /\ "pyplot:7" \in Range(out) =>
              /\ Descending(aggs.top_acq, Same)
              /\ TopOf(aggs.top_acq, RankedKeys("market"), MarketRate, Same, TopAcqN)

\* more groups than N in every ranked aggregate, with a tie inside the kept part,
\* distinct values too, and a tie across the cut
RankedDescendingWitness ==
    /\ outcome = "done"
    /\ Cardinality(RankedKeys("market")) > TopMarketsN
    /\ Len(aggs.top_markets) = TopMarketsN
    /\ Cardinality(RankedKeys("country_code")) > TopCountriesN
    /\ Len(aggs.country_counts) = TopCountriesN
    /\ Len(aggs.avg_funding) = TopAvgN
    /\ Len(aggs.top_acq) = TopAcqN
    /\ \E k \in 1..(TopMarketsN - 1) :
          aggs.top_markets[k].value = aggs.top_markets[k + 1].value
    /\ aggs.top_markets[1].value > aggs.top_markets[2].value
    /\ \E g \in RankedKeys("market") \ Labels(aggs.top_markets) :
          MarketSum(g) = aggs.top_markets[TopMarketsN].value

\* C5: in a run with a non-empty view, view 5 is rendered exactly when the schema has
\* funding_rounds and view 7 exactly when the view holds an acquired row; a notice
\* stands in for a view not rendered, and views 1, 2, 3, 4 and 6 are rendered
OptionalViews ==
    outcome = "done" =>
        LET O == Range(out) IN
        /\ ("plotly_chart:5" \in O) <=> ("funding_rounds" \in cache.columns)
        /\ ("info:5" \in O) <=> ~("funding_rounds" \in cache.columns)
        /\ ("pyplot:7" \in O) <=> (\E k \in 1..Len(View) : View[k].status = "acquired")
        /\ ("info:7" \in O) <=> ~("pyplot:7" \in O)
        /\ {"pyplot:1", "plotly_chart:2", "pyplot:3", "pyplot:4", "pyplot:6"} \subseteq O

\* both optional views skipped in one run, on a dataset that does hold an acquired
\* row outside the view
OptionalViewsWitness ==
    /\ outcome = "done"
    /\ "info:5" \in Range(out)
    /\ "info:7" \in Range(out)
    /\ \E i \in 1..Len(cache.rows) : cache.rows[i].status = "acquired"
    /\ "pyplot:6" \in Range(out)

\* C6: the criteria of every run lie within the bounds derived from the data
CriteriaWithinData ==
    Live =>
        /\ SetMin(Years(cache)) <= widgets.founded_range[1]
        /\ widgets.founded_range[1] <= widgets.founded_range[2]
        /\ widgets.founded_range[2] <= SetMax(Years(cache))
        /\ 0 <= widgets.min_funding
        /\ 2 * widgets.min_funding <= SetMax(Fundings(cache))
        /\ widgets.status \subseteq Distinct(cache, "status")
        /\ widgets.market \subseteq Distinct(cache, "market")
        /\ widgets.country \subseteq Distinct(cache, "country_code")

\* C7: the file is read at most once, on the first load_data call, and the cached
\* Dataset stays what that first load produced through every later run
LoadedOnce ==
    /\ fileReads <= 1
    /\ outcome = "none" => (fileReads = 0 /\ ~CacheHit(cache))
    /\ outcome # "none" => (fileReads = 1 /\ cache = Dataset)

\* a later interaction: a completed run whose criteria are no longer the defaults
LoadedOnceWitness ==
    /\ outcome = "done"
    /\ fileReads = 1
    /\ widgets # Defaults(cache)
    /\ Len(filtered_df) < Len(cache.rows)
    /\ display_df # NoTable

\* C8: a run's Filtered View and aggregates are those of a fresh evaluation on the
\* file and the latest criteria, and a re-run on unchanged criteria repeats them
HistoryIndependent ==
    [][ (outcome' \in {"stopped", "done"}) =>
          /\ cache' = Dataset
          /\ filtered_df' = Filter(Dataset, widgets')
          /\ outcome' = "done" =>
                \E tb \in TieBreaks :
                    aggs' = Aggregates(FilteredRows(cache', filtered_df'), tb)
          /\ (Live /\ widgets' = widgets) =>
                /\ filtered_df' = filtered_df
                /\ out' = out
                /\ display_df' = display_df
                /\ aggs'.yearly_funding = aggs.yearly_funding
                /\ aggs'.status_data = aggs.status_data
                /\ aggs'.acq_rate = aggs.acq_rate
                /\ Values(aggs'.top_markets) = Values(aggs.top_markets)
                /\ Values(aggs'.country_counts) = Values(aggs.country_counts)
                /\ Values(aggs'.avg_funding) = Values(aggs.avg_funding)
                /\ Values(aggs'.top_acq) = Values(aggs.top_acq)
      ]_vars

\* a completed run on criteria widened again after a narrower run is indistinguishable
\* from a first run: here a run on non-default criteria whose view differs from the
\* default view
HistoryIndependentWitness ==
    /\ outcome = "done"
    /\ widgets # Defaults(cache)
    /\ widgets.country = DefaultCountries
    /\ filtered_df # Filter(cache, Defaults(cache))
    /\ Len(filtered_df) >= 2

\* C9: when view 7 is computed, each market of the view has rate
\* acquired rows / all rows of that market; the denominator is positive, the rate
\* lies in [0, 1] and some market has a positive rate
AcqRateExact ==
    (outcome = "done" /\ "pyplot:7" \in Range(out)) =>
        /\ DOMAIN aggs.acq_rate = ViewKeys("market")
        /\ \A m \in DOMAIN aggs.acq_rate :
              /\ Eq(aggs.acq_rate[m], <<AcquiredOf(m), CountOf("market", m)>>)
              /\ aggs.acq_rate[m][2] > 0
              /\ RowTotal(aggs.status_data[m]) = CountOf("market", m)
              /\ 0 <= aggs.acq_rate[m][1]
              /\ aggs.acq_rate[m][1] <= aggs.acq_rate[m][2]
        /\ \E m \in DOMAIN aggs.acq_rate : aggs.acq_rate[m][1] > 0

\* a market with rate strictly between 0 and 1 next to a market with rate 0
AcqRateExactWitness ==
    /\ outcome = "done"
    /\ "pyplot:7" \in Range(out)
    /\ \E m \in DOMAIN aggs.acq_rate :
          0 < aggs.acq_rate[m][1] /\ aggs.acq_rate[m][1] < aggs.acq_rate[m][2]
    /\ \E m \in DOMAIN aggs.acq_rate : aggs.acq_rate[m][1] = 0

\* C10: no selection holds a null, and a row with a null status, market or
\* country_code is in no Filtered View
NullRowsExcluded ==
    Live =>
        /\ Null \notin (widgets.status \cup widgets.market \cup widgets.country)
        /\ \A i \in 1..Len(cache.rows) :
              (Null \in {cache.rows[i].status, cache.rows[i].market,
                         cache.rows[i].country_code})
                  => i \notin Range(filtered_df)

\* every option of every control selected, sliders at their widest, and the view is
\* still a non-empty proper subset whose missing rows are exactly the null ones
NullRowsExcludedWitness ==
    /\ outcome = "done"
    /\ widgets.status = Distinct(cache, "status")
    /\ widgets.market = Distinct(cache, "market")
    /\ widgets.country = Distinct(cache, "country_code")
    /\ widgets.founded_range = bounds.year
    /\ widgets.min_funding = bounds.funding[1]
    /\ Len(filtered_df) < Len(cache.rows)
    /\ \A i \in 1..Len(cache.rows) :
          (i \notin Range(filtered_df)) =>
              Null \in {cache.rows[i].status, cache.rows[i].market,
                        cache.rows[i].country_code}

====
